---------------------------- MODULE Spec2Model ----------------------------
(***************************************************************************)
(* A model of awswrangler/s3.py: the object-inventory operations           *)
(* (list_objects, delete_objects, describe_objects), the dataset writer    *)
(* (to_parquet) and the CSV reader (read_csv), run by one client against   *)
(* an object store.                                                        *)
(*                                                                         *)
(* Strings are sequences of symbols.  A symbol is a TLA+ string standing   *)
(* for one character, except the scheme "s3://", bucket names and file     *)
(* extensions, which are single symbols (none contains "/").               *)
(*                                                                         *)
(* The per-item functions (_delete_objects, _describe_object, _read_csv)   *)
(* are the same code in the sequential and in the threaded mode; the model *)
(* keeps one record per invocation in `tasks` and the two modes differ in  *)
(* who starts an invocation and who reads its outcome.                     *)
(***************************************************************************)
EXTENDS Integers, Sequences, FiniteSets, TLC

VARIABLES
    store,      \* the object store: a function from locator to object body
    todo,       \* the public calls the client still makes, in order
    pc,         \* the client: "idle", the name of the public call running, "returned", "raised"
    call,       \* the public call in progress (or the last one)
    result,     \* value returned, or exception raised, by the last public call
    fr,         \* frame of to_parquet, describe_objects or read_csv
    del,        \* frame of delete_objects (also entered from _to_parquet_dataset)
    tasks,      \* invocations of the per-item function of the batch in progress
    reqs,       \* history: list, delete and put requests issued since the public call began
    pre,        \* history: the store when the public call began
    nfail,      \* history: requests that failed since the public call began
    past,       \* history: the public calls that have ended, with their outcome
    nuuid       \* uuid4 values drawn so far

vars == <<store, todo, pc, call, result, fr, del, tasks, reqs, pre, nfail, past, nuuid>>

-----------------------------------------------------------------------------
(* Bounds of the model *)

\* keys of one bulk-delete request.  The code passes max_length=1_000 (line
\* 204); the model runs delete_objects with this smaller limit, and every
\* formula below is stated in terms of it
MaxLength == 2
\* objects of the large bucket listing: one more than two full requests
MaxKeys == 2 * MaxLength + 1
\* worker threads of a pool (os.cpu_count() of the host)
Cpus == 2
\* requests that the store may fail during one public call
MaxFail == 1

-----------------------------------------------------------------------------
(* Strings and locators *)

Range(s) == {s[i] : i \in 1..Len(s)}

StartsWith(s, p) == Len(p) <= Len(s) /\ SubSeq(s, 1, Len(p)) = p

Min(S) == CHOOSE x \in S : \A y \in S : x <= y

None == "None"

\* _utils.parse_path: drop the scheme, split on the first "/" into (bucket, key)
parse_path(path) ==
    LET rest == IF path # <<>> /\ Head(path) = "s3://" THEN Tail(path) ELSE path
        cut  == {i \in 1..Len(rest) : rest[i] = "/"}
    IN  IF cut = {} THEN <<rest, <<>>>>
        ELSE <<SubSeq(rest, 1, Min(cut) - 1), SubSeq(rest, Min(cut) + 1, Len(rest))>>

\* f"s3://{bucket}/{key}"
FormatPath(bucket, key) == <<"s3://">> \o bucket \o <<"/">> \o key

\* the locators under a prefix: same bucket, and the key starts with it
Under(l, path) ==
    /\ parse_path(l)[1] = parse_path(path)[1]
    /\ StartsWith(parse_path(l)[2], parse_path(path)[2])

\* errors other than not-found that the provider may answer a request with
FatalCodes == {403, 500}

ClientError(code) == [type |-> "ClientError", code |-> code]

-----------------------------------------------------------------------------
(* The object store's requests *)

\* the order in which the provider lists a set of locators
RECURSIVE ListingOrder(_)
ListingOrder(S) ==
    IF S = {} THEN <<>>
    ELSE LET l == CHOOSE x \in S : TRUE IN <<l>> \o ListingOrder(S \ {l})

\* list_objects_v2 over every page: the keys of a bucket that start with
\* prefix, in provider order (lines 145-153 rebuild the locator of each)
list_objects(st, path) ==
    LET bucket == parse_path(path)[1]
        prefix == parse_path(path)[2]
        keys   == {parse_path(l)[2] : l \in {x \in DOMAIN st : /\ parse_path(x)[1] = bucket
                                                              /\ StartsWith(parse_path(x)[2], prefix)}}
    IN  ListingOrder({FormatPath(bucket, key) : key \in keys})

\* client_s3.delete_objects(Bucket, Delete): the store without the named keys
BulkDelete(st, bucket, keys) ==
    LET gone == {FormatPath(bucket, keys[i]) : i \in 1..Len(keys)}
    IN  [l \in (DOMAIN st) \ gone |-> st[l]]

\* writing an object: the store with body at the locator
PutObject(st, path, body) ==
    [l \in (DOMAIN st) \cup {path} |-> IF l = path THEN body ELSE st[l]]

\* the body of an object written before the run: the rows of the file
OldBody == << [a |-> 0] >>

\* a record of one request in the history
Request(op, session, bucket, keys, ok) ==
    [op |-> op, session |-> session, bucket |-> bucket, keys |-> keys, ok |-> ok]

-----------------------------------------------------------------------------
(* Invocations of a per-item function *)

\* invocation k of fn, not started; `by` is "main" in a sequential loop and
\* "worker" for a future of executor.map
Task(fn, k, by) == [fn |-> fn, k |-> k, by |-> by, st |-> "pending", res |-> None,
                    i |-> 0, lookups |-> 0, sleeps |-> 0, end |-> 0]

Finished == {"done", "failed", "cancelled"}

Running == {k \in 1..Len(tasks) : tasks[k].st = "running"}

\* a pool that is left with shutdown(wait=False)
AllFinishedNoWait == TRUE

\* leaving the with block of a pool: shutdown(wait=True) has joined the workers
AllFinished == \A k \in 1..Len(tasks) : tasks[k].st \in Finished

\* _utils.ensure_cpu_count(use_threads=True): the workers of the pool
ensure_cpu_count == Cpus

\* a worker thread that is free takes the oldest future of the queue
worker_start ==
    /\ Cardinality(Running) < ensure_cpu_count
    /\ \E k \in 1..Len(tasks) :
          /\ tasks[k].st = "pending" /\ tasks[k].by = "worker"
          /\ \A j \in 1..(k - 1) : tasks[j].st # "pending"
          /\ tasks' = [tasks EXCEPT ![k].st = "running"]
    /\ UNCHANGED <<store, todo, pc, call, result, fr, del, reqs, pre, nfail, past, nuuid>>

-----------------------------------------------------------------------------
(* Helpers of delete_objects *)

\* the argument `path` of the batch operations is a string or a list of strings
Str(s) == [str |-> s]
List(l) == [list |-> l]
\* isinstance(path, str)
IsStr(path) == "str" \in DOMAIN path

\* _path2list: a prefix (a string) is listed, a list is taken as it is
_path2list(st, path) == IF IsStr(path) THEN list_objects(st, path.str) ELSE path.list

\* the record of the listing request that _path2list makes for a prefix
ListRequest(session, prefix, ok) ==
    Request("list", session, parse_path(prefix)[1], <<parse_path(prefix)[2]>>, ok)

\* _split_paths_by_bucket with every key filed under the bucket of the first path
SplitIntoFirstBucket(paths) ==
    << [bucket |-> parse_path(paths[1])[1],
        keys   |-> [i \in 1..Len(paths) |-> parse_path(paths[i])[2]]] >>

\* _split_paths_by_bucket: the dict of bucket -> keys, as the sequence of its
\* items in insertion order (a bucket enters at its first path)
_split_paths_by_bucket(paths) ==
    LET parsed   == [i \in 1..Len(paths) |-> parse_path(paths[i])]
        names    == {parsed[i][1] : i \in 1..Len(paths)}
        first(b) == Min({i \in 1..Len(paths) : parsed[i][1] = b})
        rank(b)  == Cardinality({c \in names : first(c) < first(b)}) + 1
        of(b)    == SelectSeq(parsed, LAMBDA e : e[1] = b)
        keys(b)  == [i \in 1..Len(of(b)) |-> of(b)[i][2]]
        nth(j)   == CHOOSE b \in names : rank(b) = j
    IN  [j \in 1..Cardinality(names) |-> [bucket |-> nth(j), keys |-> keys(nth(j))]]

\* ceil(a / b)
CeilDiv(a, b) == (a + b - 1) \div b

\* _utils.chunkify(lst, max_length): ceil(len/max_length) consecutive slices
\* of near-equal size, the longer ones first
chunkify(lst, max_length) ==
    LET n      == CeilDiv(Len(lst), max_length)
        small  == Len(lst) \div n
        extra  == Len(lst) % n
        lo(j)  == (j - 1) * small + (IF j - 1 < extra THEN j - 1 ELSE extra)
        len(j) == small + (IF j <= extra THEN 1 ELSE 0)
    IN  [j \in 1..n |-> SubSeq(lst, lo(j) + 1, lo(j) + len(j))]

-----------------------------------------------------------------------------
(* delete_objects *)

Off == [pc |-> "off", fn |-> None]

\* the frame of a call of delete_objects(path, use_threads, boto3_session)
DeleteFrame(path, use_threads, session) ==
    [pc |-> "resolve", path |-> path, use_threads |-> use_threads, session |-> session,
     paths |-> <<>>, buckets |-> <<>>, b |-> 0, chunks |-> <<>>, c |-> 0, exc |-> None]

\* lines 198-202: resolve the argument; nothing to delete returns at once
delete_resolve ==
    /\ del.pc = "resolve"
    /\ \/ /\ LET paths == _path2list(store, del.path)
             IN  del' = IF Len(paths) < 1
                        THEN [del EXCEPT !.pc = "return"]
                        ELSE [del EXCEPT !.pc = "bucket", !.paths = paths,
                                         !.buckets = _split_paths_by_bucket(paths), !.b = 1]
          /\ reqs' = IF IsStr(del.path)
                     THEN Append(reqs, ListRequest(del.session, del.path.str, TRUE))
                     ELSE reqs
          /\ UNCHANGED nfail
       \/ \* the listing request fails: the error leaves delete_objects
          /\ IsStr(del.path)
          /\ nfail < MaxFail
          /\ \E code \in FatalCodes : del' = [del EXCEPT !.pc = "raise", !.exc = ClientError(code)]
          /\ reqs' = Append(reqs, ListRequest(del.session, del.path.str, FALSE))
          /\ nfail' = nfail + 1
    /\ UNCHANGED <<store, todo, pc, call, result, fr, tasks, pre, past, nuuid>>

\* lines 203-205 and 209-211: the next bucket of the dict; its keys are
\* chunked, and the chunks are deleted in a loop or mapped onto a fresh pool
delete_bucket ==
    /\ del.pc = "bucket"
    /\ IF del.b > Len(del.buckets)
       THEN /\ del' = [del EXCEPT !.pc = "return"]
            /\ UNCHANGED tasks
       ELSE LET chunks == chunkify(del.buckets[del.b].keys, MaxLength)
            IN  IF del.use_threads = FALSE
                THEN /\ del' = [del EXCEPT !.pc = "chunk", !.chunks = chunks, !.c = 1]
                     /\ tasks' = [k \in 1..Len(chunks) |-> Task("_delete_objects", k, "main")]
                ELSE /\ del' = [del EXCEPT !.pc = "join", !.chunks = chunks]
                     /\ tasks' = [k \in 1..Len(chunks) |-> Task("_delete_objects", k, "worker")]
    /\ UNCHANGED <<store, todo, pc, call, result, fr, reqs, pre, nfail, past, nuuid>>

\* lines 206-207: the sequential loop calls _delete_objects on the next
\* chunk and goes on when it has returned; its error leaves delete_objects
delete_chunk ==
    /\ del.pc = "chunk"
    /\ IF del.c > Len(del.chunks)
       THEN /\ del' = [del EXCEPT !.pc = "bucket", !.b = del.b + 1]
            /\ UNCHANGED tasks
       ELSE CASE tasks[del.c].st = "pending" ->
                    /\ tasks' = [tasks EXCEPT ![del.c].st = "running"]
                    /\ UNCHANGED del
              [] tasks[del.c].st = "done" ->
                    /\ del' = [del EXCEPT !.c = del.c + 1]
                    /\ UNCHANGED tasks
              [] tasks[del.c].st = "failed" ->
                    /\ del' = [del EXCEPT !.pc = "raise", !.exc = tasks[del.c].res]
                    /\ UNCHANGED tasks
              [] OTHER -> FALSE
    /\ UNCHANGED <<store, todo, pc, call, result, fr, reqs, pre, nfail, past, nuuid>>

\* lines 226-229: _delete_objects(bucket, keys, client_s3) sends one bulk
\* delete; an error of the request is the outcome of the invocation
_delete_objects ==
    \E k \in 1..Len(tasks) :
       /\ tasks[k].st = "running"
       /\ tasks[k].fn = "_delete_objects"
       /\ LET bucket == del.buckets[del.b].bucket
              keys   == del.chunks[tasks[k].k]
          IN  \/ /\ store' = BulkDelete(store, bucket, keys)
                 /\ reqs' = Append(reqs, Request("delete", del.session, bucket, keys, TRUE))
                 /\ tasks' = [tasks EXCEPT ![k].st = "done"]
                 /\ UNCHANGED nfail
              \/ /\ nfail < MaxFail
                 /\ \E code \in FatalCodes :
                      tasks' = [tasks EXCEPT ![k].st = "failed", ![k].res = ClientError(code)]
                 /\ reqs' = Append(reqs, Request("delete", del.session, bucket, keys, FALSE))
                 /\ nfail' = nfail + 1
                 /\ UNCHANGED store
       /\ UNCHANGED <<todo, pc, call, result, fr, del, pre, past, nuuid>>

\* leaving the with block without waiting for the futures
delete_join_nowait ==
    /\ del.pc = "join"
    /\ tasks' = [k \in 1..Len(tasks) |->
                    IF tasks[k].st \in Finished THEN tasks[k]
                    ELSE [tasks[k] EXCEPT !.st = "cancelled"]]
    /\ del' = [del EXCEPT !.pc = "bucket", !.b = del.b + 1]
    /\ UNCHANGED <<store, todo, pc, call, result, fr, reqs, pre, nfail, past, nuuid>>

\* lines 210-211: executor.map submits every chunk and its iterator is never
\* consumed, so no future's result (or exception) is read; leaving the with
\* block waits for every future, then the loop goes on with the next bucket
delete_join ==
    /\ del.pc = "join"
    /\ AllFinished
    /\ del' = [del EXCEPT !.pc = "bucket", !.b = del.b + 1]
    /\ UNCHANGED <<store, todo, pc, call, result, fr, tasks, reqs, pre, nfail, past, nuuid>>

-----------------------------------------------------------------------------
(* The client *)

\* the client makes the next call of its list
Begin(op) ==
    /\ pc \in {"idle", "returned", "raised"}
    /\ todo # <<>>
    /\ Head(todo).op = op
    /\ call' = Head(todo)
    /\ todo' = Tail(todo)
    /\ pc' = op
    /\ result' = None
    /\ tasks' = <<>>
    /\ reqs' = <<>>
    /\ pre' = store
    /\ nfail' = 0
    /\ UNCHANGED <<store, past, nuuid>>

\* the call ends: it returns value, or the exception exc reaches the client
End(how, value) ==
    /\ pc' = how
    /\ result' = value
    /\ past' = Append(past, [call |-> call, how |-> how, result |-> value])
    /\ UNCHANGED <<store, todo, call, tasks, reqs, pre, nfail, nuuid>>

InitClient ==
    /\ pc = "idle"
    /\ call = [op |-> None]
    /\ result = None
    /\ fr = Off
    /\ del = Off
    /\ tasks = <<>>
    /\ reqs = <<>>
    /\ pre = store
    /\ nfail = 0
    /\ past = <<>>
    /\ nuuid = 0

\* the client calls delete_objects(path, use_threads, boto3_session)
CallDelete ==
    /\ Begin("delete_objects")
    /\ del' = DeleteFrame(Head(todo).path, Head(todo).use_threads, Head(todo).session)
    /\ UNCHANGED fr

\* delete_objects returns None, or the error that left it reaches the client
ReturnDelete ==
    /\ pc = "delete_objects"
    /\ del.pc \in {"return", "raise"}
    /\ IF del.pc = "return" THEN End("returned", None) ELSE End("raised", del.exc)
    /\ del' = Off
    /\ UNCHANGED fr

-----------------------------------------------------------------------------
(* to_parquet: values and helpers *)

\* an Optional argument: Nothing is Python's None, Some(x) a value
Nothing == {}
Some(x) == {x}
The(opt) == CHOOSE x \in opt : TRUE

\* `not partition_cols`: None and the empty list are both falsy
Falsy(partition_cols) == partition_cols = Nothing \/ The(partition_cols) = <<>>

\* an exception of awswrangler.exceptions
Exc(type) == [type |-> type, code |-> 0]

\* _COMPRESSION_2_EXT: compression -> extension, as a string
_COMPRESSION_2_EXT == [None |-> <<>>, gzip |-> <<".gz">>, snappy |-> <<".snappy">>]

HexDigit == <<"0", "1", "2", "3", "4", "5", "6", "7", "8", "9", "a", "b", "c", "d", "e", "f">>

\* uuid.uuid4().hex: a name no earlier call of uuid4 has returned
UuidHex(n) == <<"#", HexDigit[((n \div 16) % 16) + 1], HexDigit[(n % 16) + 1]>>

\* the values of the partition columns, in sorted order; two of them are
\* strings that hold a "/"
SortedValues == <<"u", "v", "v/c=u", "x", "x/c=v", "y">>

\* f"{val}": the text of a value
Format(val) ==
    CASE val = "v/c=u" -> <<"v", "/", "c", "=", "u">>
      [] val = "x/c=v" -> <<"x", "/", "c", "=", "v">>
      [] OTHER         -> <<val>>

ValueRank(v) == CHOOSE i \in 1..Len(SortedValues) : SortedValues[i] = v

\* tuple s sorts before tuple t
TupleLess(s, t) ==
    \E i \in 1..Len(s) :
       /\ \A j \in 1..(i - 1) : s[j] = t[j]
       /\ ValueRank(s[i]) < ValueRank(t[i])

RECURSIVE SortTuples(_)
SortTuples(S) ==
    IF S = {} THEN <<>>
    ELSE LET t == CHOOSE x \in S : \A y \in S \ {x} : TupleLess(x, y)
         IN  <<t>> \o SortTuples(S \ {t})

\* the value-tuple of a row in the partition columns
KeyOf(row, cols) == [i \in 1..Len(cols) |-> row[cols[i]]]

\* subgroup.drop(partition_cols, axis="columns")
Drop(rows, cols) ==
    [n \in 1..Len(rows) |-> [f \in (DOMAIN rows[n]) \ Range(cols) |-> rows[n][f]]]

\* df.groupby(by=partition_cols, observed=True): the groups in sorted key
\* order, each with its rows in the order of df
groupby(df, cols) ==
    LET keys == SortTuples({KeyOf(df[n], cols) : n \in 1..Len(df)})
    IN  [g \in 1..Len(keys) |->
            [keys |-> keys[g], rows |-> SelectSeq(df, LAMBDA r : KeyOf(r, cols) = keys[g])]]

\* "/".join([f"{name}={val}" for name, val in zip(partition_cols, keys)])
RECURSIVE Subdir(_, _)
Subdir(cols, keys) ==
    IF Len(cols) = 0 \/ Len(keys) = 0 THEN <<>>
    ELSE <<Head(cols), "=">> \o Format(Head(keys))
         \o (IF Len(cols) > 1 /\ Len(keys) > 1 THEN <<"/">> \o Subdir(Tail(cols), Tail(keys))
             ELSE <<>>)

\* path if path[-1] == "/" else f"{path}/"
Normalize(path) == IF path[Len(path)] = "/" THEN path ELSE path \o <<"/">>

\* f"{prefix}{uuid.uuid4().hex}{compression_ext}.parquet"
FilePath(prefix, n, compression_ext) == prefix \o UuidHex(n) \o compression_ext \o <<".parquet">>

\* line 519 with a list that holds every mode the client may pass
ValidModesAny == {"append", "overwrite", "partitions_upsert", "partition_upsert"}

\* the modes a dataset write accepts
ValidModes == {"append", "overwrite", "partitions_upsert"}

\* line 523 without its first test: mode="overwrite" does not clean the prefix
CleansOnlyUpsert(mode, partition_cols) == (mode = "partitions_upsert") /\ Falsy(partition_cols)

\* line 523 with the test of the mode left out: every mode cleans the prefix
CleansAlways(mode, partition_cols) == TRUE

\* line 523: the modes that delete everything under the target prefix first
CleansPrefix(mode, partition_cols) ==
    (mode = "overwrite") \/ ((mode = "partitions_upsert") /\ Falsy(partition_cols))

\* line 535 taken for every mode
CleansPartitionAlways(mode) == TRUE

\* line 535: the mode that deletes a partition's subdirectory before its write
CleansPartition(mode) == mode = "partitions_upsert"

\* the frame of to_parquet and of _to_parquet_dataset
WriteFrame(c) ==
    [fn |-> "to_parquet", pc |-> "enter", df |-> c.df, path |-> c.path,
     compression |-> c.compression, compression_ext |-> <<>>, use_threads |-> c.use_threads,
     session |-> c.session, dataset |-> c.dataset, partition_cols |-> c.partition_cols,
     mode |-> c.mode, groups |-> <<>>, g |-> 0, prefix |-> <<>>, paths |-> <<>>, exc |-> None]

PutRequest(session, path, ok) ==
    Request("put", session, parse_path(path)[1], <<parse_path(path)[2]>>, ok)

-----------------------------------------------------------------------------
(* to_parquet *)

\* lines 475-488: the arguments are validated, then the single file or the
\* dataset is written
to_parquet ==
    /\ fr.pc = "enter"
    /\ fr' = IF fr.compression \notin DOMAIN _COMPRESSION_2_EXT
             THEN [fr EXCEPT !.pc = "raise", !.exc = Exc("InvalidCompression")]
             ELSE IF fr.dataset = FALSE
             THEN IF ~Falsy(fr.partition_cols)
                  THEN [fr EXCEPT !.pc = "raise", !.exc = Exc("InvalidArgumentCombination")]
                  ELSE IF fr.mode # None
                  THEN [fr EXCEPT !.pc = "raise", !.exc = Exc("InvalidArgumentCombination")]
                  ELSE [fr EXCEPT !.pc = "file",
                                  !.compression_ext = _COMPRESSION_2_EXT[fr.compression]]
             ELSE [fr EXCEPT !.pc = "dataset",
                             !.compression_ext = _COMPRESSION_2_EXT[fr.compression],
                             !.mode = IF fr.mode = None THEN "append" ELSE fr.mode]
    /\ UNCHANGED <<store, todo, pc, call, result, del, tasks, reqs, pre, nfail, past, nuuid>>

\* _to_parquet_file (lines 543-557) at `path`: the object is written, or the
\* error of the write leaves to_parquet; `after` is the frame once written
WriteFile(path, rows, after) ==
    \/ /\ store' = PutObject(store, path, rows)
       /\ reqs' = Append(reqs, PutRequest(fr.session, path, TRUE))
       /\ fr' = after
       /\ UNCHANGED nfail
    \/ /\ nfail < MaxFail
       /\ \E code \in FatalCodes : fr' = [fr EXCEPT !.pc = "raise", !.exc = ClientError(code)]
       /\ reqs' = Append(reqs, PutRequest(fr.session, path, FALSE))
       /\ nfail' = nfail + 1
       /\ UNCHANGED store

\* line 485: dataset=False writes the dataframe at the given path
to_parquet_file ==
    /\ fr.pc = "file"
    /\ WriteFile(fr.path, fr.df, [fr EXCEPT !.pc = "return", !.paths = <<fr.path>>])
    /\ UNCHANGED <<todo, pc, call, result, del, tasks, pre, past, nuuid>>

\* lines 517-524: the target becomes a directory, the mode is validated, and
\* the modes that clean the prefix call delete_objects on it
_to_parquet_dataset ==
    /\ fr.pc = "dataset"
    /\ LET path == Normalize(fr.path)
       IN  IF fr.mode \notin ValidModes
           THEN /\ fr' = [fr EXCEPT !.pc = "raise", !.exc = Exc("InvalidArgumentValue")]
                /\ UNCHANGED del
           ELSE IF CleansPrefix(fr.mode, fr.partition_cols)
           THEN /\ fr' = [fr EXCEPT !.pc = "cleanup", !.path = path]
                /\ del' = DeleteFrame(Str(path), fr.use_threads, fr.session)
           ELSE /\ fr' = [fr EXCEPT !.pc = "write", !.path = path]
                /\ UNCHANGED del
    /\ UNCHANGED <<store, todo, pc, call, result, tasks, reqs, pre, nfail, past, nuuid>>

\* line 524 inside a try block that passes over every exception
dataset_cleanup_regardless ==
    /\ fr.pc = "cleanup"
    /\ del.pc \in {"return", "raise"}
    /\ fr' = [fr EXCEPT !.pc = "write"]
    /\ del' = Off
    /\ UNCHANGED <<store, todo, pc, call, result, tasks, reqs, pre, nfail, past, nuuid>>

\* line 524: delete_objects comes back; its error leaves to_parquet
dataset_cleanup ==
    /\ fr.pc = "cleanup"
    /\ del.pc \in {"return", "raise"}
    /\ fr' = IF del.pc = "return" THEN [fr EXCEPT !.pc = "write"]
             ELSE [fr EXCEPT !.pc = "raise", !.exc = del.exc]
    /\ del' = Off
    /\ UNCHANGED <<store, todo, pc, call, result, tasks, reqs, pre, nfail, past, nuuid>>

\* lines 525-530: without partition columns one file is written under the
\* prefix; with them the dataframe is grouped
dataset_write ==
    /\ fr.pc = "write"
    /\ IF Falsy(fr.partition_cols)
       THEN LET file_path == FilePath(fr.path, nuuid, fr.compression_ext)
            IN  /\ WriteFile(file_path, fr.df,
                             [fr EXCEPT !.pc = "return", !.paths = <<file_path>>])
                /\ nuuid' = nuuid + 1
       ELSE /\ fr' = [fr EXCEPT !.pc = "group", !.g = 1,
                                !.groups = groupby(fr.df, The(fr.partition_cols))]
            /\ UNCHANGED <<store, reqs, nfail, nuuid>>
    /\ UNCHANGED <<todo, pc, call, result, del, tasks, pre, past>>

\* lines 530-536: the next group; its subdirectory is computed, and the upsert
\* mode calls delete_objects on it, with use_threads and no boto3_session
dataset_group ==
    /\ fr.pc = "group"
    /\ IF fr.g > Len(fr.groups)
       THEN /\ fr' = [fr EXCEPT !.pc = "return"]
            /\ UNCHANGED del
       ELSE LET subdir == Subdir(The(fr.partition_cols), fr.groups[fr.g].keys)
                prefix == fr.path \o subdir \o <<"/">>
            IN  IF CleansPartition(fr.mode)
                THEN /\ fr' = [fr EXCEPT !.pc = "group_cleanup", !.prefix = prefix]
                     /\ del' = DeleteFrame(Str(prefix), fr.use_threads, None)
                ELSE /\ fr' = [fr EXCEPT !.pc = "group_write", !.prefix = prefix]
                     /\ UNCHANGED del
    /\ UNCHANGED <<store, todo, pc, call, result, tasks, reqs, pre, nfail, past, nuuid>>

\* line 536: delete_objects comes back; its error leaves to_parquet
dataset_group_cleanup ==
    /\ fr.pc = "group_cleanup"
    /\ del.pc \in {"return", "raise"}
    /\ fr' = IF del.pc = "return" THEN [fr EXCEPT !.pc = "group_write"]
             ELSE [fr EXCEPT !.pc = "raise", !.exc = del.exc]
    /\ del' = Off
    /\ UNCHANGED <<store, todo, pc, call, result, tasks, reqs, pre, nfail, past, nuuid>>

\* lines 531 and 537-539: the group, without its partition columns, is
\* written to a new file of its subdirectory and the path is recorded
dataset_group_write ==
    /\ fr.pc = "group_write"
    /\ LET file_path == FilePath(fr.prefix, nuuid, fr.compression_ext)
           subgroup  == Drop(fr.groups[fr.g].rows, The(fr.partition_cols))
       IN  WriteFile(file_path, subgroup,
                     [fr EXCEPT !.pc = "group", !.g = fr.g + 1,
                                !.paths = Append(fr.paths, file_path)])
    /\ nuuid' = nuuid + 1
    /\ UNCHANGED <<todo, pc, call, result, del, tasks, pre, past>>

\* the client calls to_parquet(df, path, ...)
CallToParquet ==
    /\ Begin("to_parquet")
    /\ fr' = WriteFrame(Head(todo))
    /\ UNCHANGED del

\* lines 501 and 540: to_parquet returns the paths written, or the exception
\* reaches the client
ReturnToParquet ==
    /\ pc = "to_parquet"
    /\ fr.pc \in {"return", "raise"}
    /\ IF fr.pc = "return" THEN End("returned", fr.paths) ELSE End("raised", fr.exc)
    /\ fr' = Off
    /\ UNCHANGED del

-----------------------------------------------------------------------------
(* The stores and calls of the to_parquet runs *)

\* the dataset directory of the runs, as the client names it
DatasetPaths == { <<"s3://", "b1", "/", "d">>, <<"s3://", "b1", "/", "d", "/">> }

\* objects of earlier writes: in the directory, in partitions of it, and
\* beside it (a key that extends "d" without the separator)
OldLocs ==
    { <<"s3://", "b1", "/", "d", "/", "o", "1", ".parquet">>,
      <<"s3://", "b1", "/", "d", "/", "b", "=", "x", "/", "o", "2", ".parquet">>,
      <<"s3://", "b1", "/", "d", "/", "b", "=", "y", "/", "o", "3", ".parquet">>,
      <<"s3://", "b1", "/", "d", "/", "b", "=", "x", "/", "c", "=", "v", "/", "o", "4", ".parquet">>,
      <<"s3://", "b1", "/", "d", "d", "/", "o", "5", ".parquet">> }

WriteStores ==
    { [l \in S |-> OldBody] :
        S \in { {}, OldLocs,
                { <<"s3://", "b1", "/", "d", "/", "b", "=", "y", "/", "o", "3", ".parquet">>,
                  <<"s3://", "b1", "/", "d", "d", "/", "o", "5", ".parquet">> } } }

\* dataframes: empty, one row, rows of two partitions out of sorted order,
\* and two rows whose values in (b, c) differ but have the same text when
\* joined into a subdirectory
Frames ==
    { <<>>,
      << [a |-> 1, b |-> "x", c |-> "v"] >>,
      << [a |-> 1, b |-> "y", c |-> "u"], [a |-> 2, b |-> "x", c |-> "v"],
         [a |-> 3, b |-> "y", c |-> "u"] >>,
      << [a |-> 1, b |-> "x/c=v", c |-> "u"], [a |-> 2, b |-> "x", c |-> "v/c=u"] >> }

PartitionArgs == { Nothing, Some(<<>>), Some(<<"b">>), Some(<<"b", "c">>) }

ModeArgs == { None, "append", "overwrite", "partitions_upsert", "partition_upsert" }

CompressionArgs == { None, "snappy", "bzip2" }

Sessions == { None, "custom" }

WriteCall(df, path, compression, use_threads, session, dataset, partition_cols, mode) ==
    [op |-> "to_parquet", df |-> df, path |-> path, compression |-> compression,
     use_threads |-> use_threads, session |-> session, dataset |-> dataset,
     partition_cols |-> partition_cols, mode |-> mode]

WriteCalls ==
    { WriteCall(df, path, compression, use_threads, session, dataset, partition_cols, mode) :
        df \in Frames, path \in DatasetPaths, compression \in CompressionArgs,
        use_threads \in BOOLEAN, session \in Sessions, dataset \in BOOLEAN,
        partition_cols \in PartitionArgs, mode \in ModeArgs }

InitWrite ==
    /\ store \in WriteStores
    /\ \E c \in WriteCalls : todo = <<c>>
    /\ InitClient

NextWrite ==
    \/ CallToParquet
    \/ to_parquet
    \/ to_parquet_file
    \/ _to_parquet_dataset
    \/ dataset_cleanup
    \/ dataset_write
    \/ dataset_group
    \/ dataset_group_cleanup
    \/ dataset_group_write
    \/ ReturnToParquet
    \/ delete_resolve
    \/ delete_bucket
    \/ delete_chunk
    \/ worker_start
    \/ _delete_objects
    \/ delete_join

SpecWrite == InitWrite /\ [][NextWrite]_vars

\* a first write of any kind to the directory, then a dataset write to the same
\* directory with mode="overwrite"
FirstWrites ==
    { c \in WriteCalls :
        /\ c.path = <<"s3://", "b1", "/", "d">>
        /\ c.compression = None /\ c.session = None /\ ~c.use_threads
        /\ c.partition_cols \in {Nothing, Some(<<"b">>)}
        /\ c.mode \in {None, "overwrite", "partitions_upsert"} }

Overwrites ==
    { c \in WriteCalls :
        /\ c.dataset /\ c.mode = "overwrite"
        /\ c.compression = "snappy" /\ c.session = None }

InitOverwrite ==
    /\ store \in WriteStores
    /\ \E A \in FirstWrites, B \in Overwrites : todo = <<A, B>>
    /\ InitClient

SpecOverwrite == InitOverwrite /\ [][NextWrite]_vars

-----------------------------------------------------------------------------
(* The stores and calls of the delete_objects runs *)

Digit == <<"0", "1", "2", "3", "4", "5", "6", "7", "8", "9">>

\* the i-th object of the large listing: s3://b1/p/<dd>
BigLoc(i) == <<"s3://", "b1", "/", "p", "/", Digit[((i \div 10) % 10) + 1], Digit[(i % 10) + 1]>>

\* a few objects around it: a key that extends the prefix "p" without the
\* separator, the same bucket outside the prefix, and another bucket
SmallLocs ==
    << <<"s3://", "b1", "/", "p", "q">>,
       <<"s3://", "b1", "/", "q", "/", "0">>,
       <<"s3://", "b2", "/", "p", "/", "0">>,
       <<"s3://", "b2", "/", "p", "/", "1">> >>

AllLocs == [i \in 1..(MaxKeys + Len(SmallLocs)) |->
                IF i <= MaxKeys THEN BigLoc(i) ELSE SmallLocs[i - MaxKeys]]

\* contents the store may begin with: the first n objects of the large
\* listing, with or without the objects around it
BigSizes == {0, 1, MaxLength - 1, MaxLength, MaxLength + 1, 2 * MaxLength, MaxKeys}

InitialStore(n, small) ==
    LET locs == {BigLoc(i) : i \in 1..n} \cup (IF small THEN Range(SmallLocs) ELSE {})
    IN  [l \in locs |-> OldBody]

\* arguments the client passes as path: prefixes ...
PrefixArgs ==
    { <<"s3://", "b1", "/", "p", "/">>,
      <<"s3://", "b1", "/", "p">>,
      <<"s3://", "b2", "/">>,
      <<"s3://", "b1", "/", "z">> }

\* ... and explicit lists: every locator, the objects of two buckets, one
\* object named twice, one object of each bucket, and buckets interleaved
ListArgs ==
    { AllLocs,
      SmallLocs,
      << SmallLocs[2], SmallLocs[2] >>,
      << SmallLocs[1], SmallLocs[3] >>,
      << SmallLocs[3], BigLoc(1), SmallLocs[4] >> }

DeleteCall(path, use_threads) ==
    [op |-> "delete_objects", path |-> path, use_threads |-> use_threads, session |-> None]

InitDelete ==
    /\ \E n \in BigSizes, small \in BOOLEAN : store = InitialStore(n, small)
    /\ \E use_threads \in BOOLEAN :
          \/ \E prefix \in PrefixArgs : todo = << DeleteCall(Str(prefix), use_threads) >>
          \/ \E paths \in ListArgs : todo = << DeleteCall(List(paths), use_threads) >>
    /\ InitClient

NextDelete ==
    \/ CallDelete
    \/ delete_resolve
    \/ delete_bucket
    \/ delete_chunk
    \/ worker_start
    \/ _delete_objects
    \/ delete_join
    \/ ReturnDelete

SpecDelete == InitDelete /\ [][NextDelete]_vars

-----------------------------------------------------------------------------
(* describe_objects and read_csv: values and helpers *)

Max(S) == CHOOSE x \in S : \A y \in S : x >= y

\* the argument wait_time: None, an int, or a float (given in tenths)
NoWait == [kind |-> "None"]
IntWait(n) == [kind |-> "int", n |-> n]
FloatWait(tenths) == [kind |-> "float", tenths |-> tenths]

\* int(x) of a float of that many tenths: the fraction is dropped, toward zero
int(tenths) == IF tenths >= 0 THEN tenths \div 10 ELSE -((-tenths) \div 10)

\* the loop of _describe_object entered however small wait_time is
TriesNoLess(wait_time) ==
    LET w == IF wait_time.kind = "float" THEN IntWait(int(wait_time.tenths)) ELSE wait_time
    IN  IF w.kind # "None" /\ w.n > 0 THEN w.n + 1 ELSE 1

\* lines 295-296: the tries of _describe_object
tries(wait_time) ==
    LET w == IF wait_time.kind = "float" THEN IntWait(int(wait_time.tenths)) ELSE wait_time
    IN  IF w.kind # "None" /\ w.n > 0 THEN w.n ELSE 1

\* the response of head_object, as the set of its (name, value) items
head_object(st, bucket, key) == { <<"ContentLength", Len(st[FormatPath(bucket, key)])>> }

\* dict(items): the mapping of the (key, value) pairs, a later pair replacing
\* an earlier one of the same key
dict(items) ==
    [p \in {items[i][1] : i \in 1..Len(items)} |->
        items[Max({i \in 1..Len(items) : items[i][1] = p})][2]]

\* a field of a CSV line: digits are read as a number
ParseField(f) ==
    IF \E d \in 1..Len(Digit) : Digit[d] = f
    THEN (CHOOSE d \in 1..Len(Digit) : Digit[d] = f) - 1
    ELSE f

\* pd.read_csv: the first line names the columns, every other line is a row
pd_read_csv(body) ==
    LET header    == Head(body)
        col(name) == CHOOSE j \in 1..Len(header) : header[j] = name
    IN  [n \in 1..(Len(body) - 1) |->
            [name \in Range(header) |-> ParseField(body[n + 1][col(name)])]]

\* pd.concat(objs, ignore_index=True, sort=False): the rows of the fragments
\* one after the other, numbered anew
RECURSIVE concat(_)
concat(objs) == IF objs = <<>> THEN <<>> ELSE Head(objs) \o concat(Tail(objs))

\* the frame of describe_objects(path, wait_time, use_threads, boto3_session)
DescribeFrame(c) ==
    [fn |-> "describe_objects", pc |-> "resolve", path |-> c.path, wait_time |-> c.wait_time,
     use_threads |-> c.use_threads, session |-> c.session, paths |-> <<>>, c |-> 0,
     resp_list |-> <<>>, exc |-> None]

\* the frame of read_csv(path, use_threads, boto3_session)
ReadFrame(c) ==
    [fn |-> "read_csv", pc |-> "resolve", path |-> c.path, wait_time |-> NoWait,
     use_threads |-> c.use_threads, session |-> c.session, paths |-> <<>>, c |-> 0,
     resp_list |-> <<>>, exc |-> None]

\* the invocations finished so far
Ended == {k \in 1..Len(tasks) : tasks[k].st \in {"done", "failed"}}

\* a list comprehension over paths: the per-item function is called on the
\* next path and its result appended; its error leaves the comprehension
ListComprehension ==
    /\ fr.pc = "loop"
    /\ IF fr.c > Len(fr.paths)
       THEN /\ fr' = [fr EXCEPT !.pc = "finish"]
            /\ UNCHANGED tasks
       ELSE CASE tasks[fr.c].st = "pending" ->
                    /\ tasks' = [tasks EXCEPT ![fr.c].st = "running"]
                    /\ UNCHANGED fr
              [] tasks[fr.c].st = "done" ->
                    /\ fr' = [fr EXCEPT !.resp_list = Append(@, tasks[fr.c].res), !.c = @ + 1]
                    /\ UNCHANGED tasks
              [] tasks[fr.c].st = "failed" ->
                    /\ fr' = [fr EXCEPT !.pc = "raise", !.exc = tasks[fr.c].res]
                    /\ UNCHANGED tasks
              [] OTHER -> FALSE
    /\ UNCHANGED <<store, todo, pc, call, result, del, reqs, pre, nfail, past, nuuid>>

\* the iterator of executor.map read from the last future to the first
ExecutorMapReversed ==
    /\ fr.pc = "collect"
    /\ IF fr.c > Len(fr.paths)
       THEN /\ fr' = [fr EXCEPT !.pc = "join"]
            /\ UNCHANGED tasks
       ELSE LET k == Len(fr.paths) + 1 - fr.c
            IN  CASE tasks[k].st = "done" ->
                    /\ fr' = [fr EXCEPT !.resp_list = Append(@, tasks[k].res), !.c = @ + 1]
                    /\ UNCHANGED tasks
                  [] tasks[k].st = "failed" ->
                    /\ fr' = [fr EXCEPT !.pc = "abort", !.exc = tasks[k].res]
                    /\ tasks' = [j \in 1..Len(tasks) |->
                                    IF tasks[j].st = "pending"
                                    THEN [tasks[j] EXCEPT !.st = "cancelled"] ELSE tasks[j]]
                  [] OTHER -> FALSE
    /\ UNCHANGED <<store, todo, pc, call, result, del, reqs, pre, nfail, past, nuuid>>

\* the iterator of executor.map, consumed to its end: the result of the next
\* future in input order is waited for and appended; the exception of a
\* future is raised, and the futures not yet started are cancelled
ExecutorMap ==
    /\ fr.pc = "collect"
    /\ IF fr.c > Len(fr.paths)
       THEN /\ fr' = [fr EXCEPT !.pc = "join"]
            /\ UNCHANGED tasks
       ELSE CASE tasks[fr.c].st = "done" ->
                    /\ fr' = [fr EXCEPT !.resp_list = Append(@, tasks[fr.c].res), !.c = @ + 1]
                    /\ UNCHANGED tasks
              [] tasks[fr.c].st = "failed" ->
                    /\ fr' = [fr EXCEPT !.pc = "abort", !.exc = tasks[fr.c].res]
                    /\ tasks' = [j \in 1..Len(tasks) |->
                                    IF tasks[j].st = "pending"
                                    THEN [tasks[j] EXCEPT !.st = "cancelled"] ELSE tasks[j]]
              [] OTHER -> FALSE
    /\ UNCHANGED <<store, todo, pc, call, result, del, reqs, pre, nfail, past, nuuid>>

\* leaving the with block waits for the futures that run; then the results
\* are used, or the exception goes on
PoolExit ==
    /\ fr.pc \in {"join", "abort"}
    /\ AllFinished
    /\ fr' = [fr EXCEPT !.pc = IF fr.pc = "join" THEN "finish" ELSE "raise"]
    /\ UNCHANGED <<store, todo, pc, call, result, del, tasks, reqs, pre, nfail, past, nuuid>>

\* the frame once the paths are known: the loop or the pool is entered
Started(paths) ==
    [fr EXCEPT !.pc = IF fr.use_threads = FALSE THEN "loop" ELSE "collect",
               !.paths = paths, !.c = 1]

\* one invocation of fn per path: called one by one by the list comprehension,
\* or all submitted to a fresh pool by executor.map
Invocations(fn, paths, i) ==
    [k \in 1..Len(paths) |->
        [Task(fn, k, IF fr.use_threads = FALSE THEN "main" ELSE "worker") EXCEPT !.i = i]]

\* _path2list has listed the prefix, if path is one
Listed ==
    /\ reqs' = IF IsStr(fr.path)
               THEN Append(reqs, ListRequest(fr.session, fr.path.str, TRUE))
               ELSE reqs
    /\ UNCHANGED nfail

\* the listing request of _path2list fails: the error leaves the operation
ListingFails ==
    /\ IsStr(fr.path)
    /\ nfail < MaxFail
    /\ \E code \in FatalCodes : fr' = [fr EXCEPT !.pc = "raise", !.exc = ClientError(code)]
    /\ reqs' = Append(reqs, ListRequest(fr.session, fr.path.str, FALSE))
    /\ nfail' = nfail + 1
    /\ UNCHANGED tasks

\* the objects of the describe_objects and read_csv runs
ReadLocs ==
    << <<"s3://", "b1", "/", "f", "/", "0", ".csv">>,
       <<"s3://", "b1", "/", "f", "/", "1", ".csv">>,
       <<"s3://", "b1", "/", "g", "/", "2", ".csv">> >>

\* the CSV text of an object: a line of column names, then one line per row;
\* the objects differ in their rows
CsvBody(l) ==
    LET n == CHOOSE i \in 1..Len(ReadLocs) : ReadLocs[i] = l
    IN  << <<"a", "b">> >> \o [r \in 1..n |-> <<Digit[n + 1], Digit[r + 1]>>]

\* objects that another client is writing
Arrivals == { ReadLocs[2] }

-----------------------------------------------------------------------------
(* describe_objects *)

\* lines 277-287: the paths are resolved; no path returns {} at once, else
\* _describe_object is invoked on each
describe_resolve ==
    /\ fr.fn = "describe_objects"
    /\ fr.pc = "resolve"
    /\ \/ /\ LET paths == _path2list(store, fr.path)
             IN  IF Len(paths) < 1
                 THEN /\ fr' = [fr EXCEPT !.pc = "finish"]
                      /\ tasks' = <<>>
                 ELSE /\ fr' = Started(paths)
                      /\ tasks' = Invocations("_describe_object", paths, tries(fr.wait_time))
          /\ Listed
       \/ ListingFails
    /\ UNCHANGED <<store, todo, pc, call, result, del, pre, past, nuuid>>

\* line 283
describe_loop == fr.fn = "describe_objects" /\ ListComprehension

\* line 287
describe_map == fr.fn = "describe_objects" /\ ExecutorMap

\* line 286: the end of the with block
describe_exit == fr.fn = "describe_objects" /\ PoolExit

\* line 306 with the test of the status left out: every error is not-found
NotFoundAny(code) == TRUE

\* line 306: the status of a ClientError that means not found
NotFound(code) == code = 404

\* the statuses that head_object may answer with: 200 for an object that is
\* there, 404 for one that is not, or another error
Answers(st, bucket, key) ==
    (IF FormatPath(bucket, key) \in DOMAIN st THEN {200} ELSE {404})
        \cup (IF nfail < MaxFail THEN FatalCodes ELSE {})

\* lines 301-312: one turn of the loop of _describe_object: head_object
\* answers with the object's attributes, with not-found (then the last try
\* ends the loop and any other sleeps), or with another error, which is raised
_describe_object ==
    \E k \in 1..Len(tasks) :
       /\ tasks[k].st = "running"
       /\ tasks[k].fn = "_describe_object"
       /\ LET t      == tasks[k]
              path   == fr.paths[t.k]
              bucket == parse_path(path)[1]
              key    == parse_path(path)[2]
              end    == Cardinality(Ended) + 1
          IN  \E code \in Answers(store, bucket, key) :
                 /\ tasks' = [tasks EXCEPT ![k] =
                       IF code = 200
                       THEN [t EXCEPT !.st = "done", !.lookups = @ + 1, !.end = end,
                                      !.res = <<path, head_object(store, bucket, key)>>]
                       ELSE IF NotFound(code)
                       THEN IF t.i = 1
                            THEN [t EXCEPT !.st = "done", !.lookups = @ + 1, !.end = end,
                                           !.res = <<path, {}>>]
                            ELSE [t EXCEPT !.lookups = @ + 1, !.sleeps = @ + 1, !.i = @ - 1]
                       ELSE [t EXCEPT !.st = "failed", !.lookups = @ + 1, !.end = end,
                                      !.res = ClientError(code)]]
                 /\ nfail' = IF code \in FatalCodes THEN nfail + 1 ELSE nfail
       /\ UNCHANGED <<store, todo, pc, call, result, fr, del, reqs, pre, past, nuuid>>

\* the client calls describe_objects(path, wait_time, use_threads, boto3_session)
CallDescribe ==
    /\ Begin("describe_objects")
    /\ fr' = DescribeFrame(Head(todo))
    /\ UNCHANGED del

\* lines 279 and 288-289: describe_objects returns dict(resp_list), or the
\* exception reaches the client
ReturnDescribe ==
    /\ pc = "describe_objects"
    /\ fr.pc \in {"finish", "raise"}
    /\ IF fr.pc = "finish" THEN End("returned", dict(fr.resp_list)) ELSE End("raised", fr.exc)
    /\ fr' = Off
    /\ UNCHANGED del

\* another client's object becomes visible while describe_objects runs
other_writer_put ==
    /\ pc = "describe_objects"
    /\ \E l \in Arrivals \ DOMAIN store : store' = PutObject(store, l, CsvBody(l))
    /\ UNCHANGED <<todo, pc, call, result, fr, del, tasks, reqs, pre, nfail, past, nuuid>>

-----------------------------------------------------------------------------
(* read_csv *)

\* lines 603-617: the paths are resolved and _read_csv is invoked on each
read_resolve ==
    /\ fr.fn = "read_csv"
    /\ fr.pc = "resolve"
    /\ \/ /\ LET paths == _path2list(store, fr.path)
             IN  /\ fr' = Started(paths)
                 /\ tasks' = Invocations("_read_csv", paths, 0)
          /\ Listed
       \/ ListingFails
    /\ UNCHANGED <<store, todo, pc, call, result, del, pre, past, nuuid>>

\* line 606
read_loop == fr.fn = "read_csv" /\ ListComprehension

\* line 614
read_map == fr.fn = "read_csv" /\ ExecutorMap

\* line 612: the end of the with block
read_exit == fr.fn = "read_csv" /\ PoolExit

\* lines 605 and 613: pd.concat of the fragments; none to concatenate is a
\* ValueError
read_concat ==
    /\ fr.fn = "read_csv"
    /\ fr.pc = "finish"
    /\ fr' = IF fr.resp_list = <<>>
             THEN [fr EXCEPT !.pc = "raise", !.exc = Exc("ValueError")]
             ELSE [fr EXCEPT !.pc = "return"]
    /\ UNCHANGED <<store, todo, pc, call, result, del, tasks, reqs, pre, nfail, past, nuuid>>

\* lines 621-624: _read_csv opens the object and parses it; a missing object
\* or an error of the request is the outcome of the invocation
_read_csv ==
    \E k \in 1..Len(tasks) :
       /\ tasks[k].st = "running"
       /\ tasks[k].fn = "_read_csv"
       /\ LET t    == tasks[k]
              path == fr.paths[t.k]
              end  == Cardinality(Ended) + 1
          IN  \/ /\ path \in DOMAIN store
                 /\ tasks' = [tasks EXCEPT ![k] =
                                 [t EXCEPT !.st = "done", !.end = end,
                                           !.res = pd_read_csv(store[path])]]
                 /\ UNCHANGED nfail
              \/ /\ path \notin DOMAIN store
                 /\ tasks' = [tasks EXCEPT ![k] =
                                 [t EXCEPT !.st = "failed", !.end = end,
                                           !.res = Exc("FileNotFoundError")]]
                 /\ UNCHANGED nfail
              \/ /\ nfail < MaxFail
                 /\ \E code \in FatalCodes :
                      tasks' = [tasks EXCEPT ![k] =
                                   [t EXCEPT !.st = "failed", !.end = end,
                                             !.res = ClientError(code)]]
                 /\ nfail' = nfail + 1
       /\ UNCHANGED <<store, todo, pc, call, result, fr, del, reqs, pre, past, nuuid>>

\* the client calls read_csv(path, use_threads, boto3_session)
CallReadCsv ==
    /\ Begin("read_csv")
    /\ fr' = ReadFrame(Head(todo))
    /\ UNCHANGED del

\* line 618: read_csv returns the dataframe, or the exception reaches the client
ReturnReadCsv ==
    /\ pc = "read_csv"
    /\ fr.pc \in {"return", "raise"}
    /\ IF fr.pc = "return" THEN End("returned", concat(fr.resp_list)) ELSE End("raised", fr.exc)
    /\ fr' = Off
    /\ UNCHANGED del

-----------------------------------------------------------------------------
(* The stores and calls of the describe_objects and read_csv runs *)

\* the largest wait_time of the runs
MaxWait == 3

ReadStores ==
    { [l \in S |-> CsvBody(l)] : S \in { Range(ReadLocs), {ReadLocs[1], ReadLocs[3]} } }

BatchPaths ==
    { List(<<>>), List(<<ReadLocs[1]>>), List(<<ReadLocs[2], ReadLocs[1]>>),
      List(<<ReadLocs[3], ReadLocs[2], ReadLocs[1]>>), List(<<ReadLocs[2], ReadLocs[2]>>) }

BatchPrefixes ==
    { Str(<<"s3://", "b1", "/", "f", "/">>), Str(<<"s3://", "b1", "/", "h">>) }

WaitArgs ==
    { NoWait, FloatWait(-15), FloatWait(5), FloatWait(10 * MaxWait - 5) }
        \cup { IntWait(n) : n \in -1..MaxWait }

DescribeCall(path, wait_time, use_threads) ==
    [op |-> "describe_objects", path |-> path, wait_time |-> wait_time,
     use_threads |-> use_threads, session |-> None]

ReadCall(path, use_threads) ==
    [op |-> "read_csv", path |-> path, use_threads |-> use_threads, session |-> None]

InitBatch ==
    /\ store \in ReadStores
    /\ \E use_threads \in BOOLEAN :
          \/ \E path \in BatchPaths, wait_time \in WaitArgs :
                todo = << DescribeCall(path, wait_time, use_threads) >>
          \/ \E path \in BatchPrefixes, wait_time \in WaitArgs :
                todo = << DescribeCall(path, wait_time, use_threads) >>
          \/ \E path \in BatchPaths : todo = << ReadCall(path, use_threads) >>
          \/ \E path \in BatchPrefixes : todo = << ReadCall(path, use_threads) >>
    /\ InitClient

\* the steps of the client and of its threads
BatchSteps ==
    \/ CallDescribe
    \/ describe_resolve
    \/ describe_loop
    \/ describe_map
    \/ describe_exit
    \/ _describe_object
    \/ ReturnDescribe
    \/ CallReadCsv
    \/ read_resolve
    \/ read_loop
    \/ read_map
    \/ read_exit
    \/ read_concat
    \/ _read_csv
    \/ ReturnReadCsv
    \/ worker_start


NextBatch == BatchSteps \/ other_writer_put

SpecBatch == InitBatch /\ [][NextBatch]_vars

\* the client and its threads keep running while they have a step to take;
\* nothing is assumed of the other writer
FairSpecBatch == SpecBatch /\ WF_vars(BatchSteps)

-----------------------------------------------------------------------------
(* The runs of any one batch operation *)

InitPool == InitDelete \/ InitBatch

NextPool == NextDelete \/ NextBatch

\* one call of delete_objects, describe_objects or read_csv
SpecPool == InitPool /\ [][NextPool]_vars

-----------------------------------------------------------------------------
(* Properties of delete_objects *)

\* delete_objects, called by the client, is about to return normally
DeleteReturns == pc = "delete_objects" /\ del.pc = "return"

DeleteRequests == SelectSeq(reqs, LAMBDA r : r.op = "delete")

\* the bulk-delete requests of the history that are addressed to a bucket
RequestsTo(bucket) == SelectSeq(DeleteRequests, LAMBDA r : r.bucket = bucket)

\* how often x occurs in the sequence s
Count(s, x) == Cardinality({i \in 1..Len(s) : s[i] = x})

\* how often a key is named by the requests rs
Requested(rs, key) ==
    Cardinality(UNION {{<<i, j>> : j \in {n \in 1..Len(rs[i].keys) : rs[i].keys[n] = key}} :
                          i \in 1..Len(rs)})

\* the paths of the input that name a bucket
PathsOf(paths, bucket) == SelectSeq(paths, LAMBDA l : parse_path(l)[1] = bucket)

BucketsOf(paths) == {parse_path(paths[i])[1] : i \in 1..Len(paths)}

\* every request carries between one and MaxLength keys, and every
\* occurrence of a key in the input is in exactly one request to its bucket
KeysCovered ==
    /\ \A i \in 1..Len(DeleteRequests) :
          /\ Len(DeleteRequests[i].keys) \in 1..MaxLength
          /\ DeleteRequests[i].bucket \in BucketsOf(del.paths)
    /\ \A i \in 1..Len(del.paths) :
          LET bucket == parse_path(del.paths[i])[1]
              key    == parse_path(del.paths[i])[2]
          IN  Requested(RequestsTo(bucket), key) = Count(del.paths, del.paths[i])

\* C1 as stated: M input keys are deleted by exactly ceil(M / max_length)
\* requests of at most max_length keys, every input key in exactly one
\* request to its own bucket, and no request when M = 0
C1_AsStated ==
    DeleteReturns =>
        /\ Len(DeleteRequests) = CeilDiv(Len(del.paths), MaxLength)
        /\ KeysCovered

\* C1 (amended): when delete_objects returns normally, each bucket that M_b of
\* the input keys name got exactly ceil(M_b / max_length) requests and no
\* other bucket got one (so no request at all for an empty input); each
\* request carries at most max_length keys and every occurrence of an input
\* key is in exactly one request to its own bucket
C1_ChunksPerBucket ==
    DeleteReturns =>
        /\ \A bucket \in BucketsOf(del.paths) :
              Len(RequestsTo(bucket)) = CeilDiv(Len(PathsOf(del.paths, bucket)), MaxLength)
        /\ Len(del.paths) = 0 => DeleteRequests = <<>>
        /\ KeysCovered

\* a threaded call over two buckets, one of them with more than two full
\* requests, returns
C1_Witness ==
    /\ DeleteReturns
    /\ call.use_threads
    /\ Cardinality(BucketsOf(del.paths)) = 2
    /\ \E bucket \in BucketsOf(del.paths) : Len(RequestsTo(bucket)) > 2

DeletedPrefix ==
    pc = "returned" /\ call.op = "delete_objects" /\ IsStr(call.path) /\ nfail = 0

\* C2: after delete_objects(P) on a prefix P has returned with no request
\* failed, list_objects(P) is empty and every object whose key does not start
\* with P is as it was, in both concurrency modes
C2_PrefixEmptied ==
    DeletedPrefix =>
        /\ list_objects(store, call.path.str) = <<>>
        /\ \A l \in DOMAIN pre :
              ~Under(l, call.path.str) => l \in DOMAIN store /\ store[l] = pre[l]
        /\ DOMAIN store \subseteq DOMAIN pre

\* a threaded delete of a prefix that held more than two full requests and
\* had objects beside it has returned
C2_Witness ==
    /\ DeletedPrefix
    /\ call.use_threads
    /\ Len(list_objects(pre, call.path.str)) > 2 * MaxLength
    /\ \E l \in DOMAIN pre : ~Under(l, call.path.str)

-----------------------------------------------------------------------------
(* Properties of to_parquet *)

\* the public call is a dataset write whose compression is accepted
DatasetWrite ==
    /\ call.op = "to_parquet"
    /\ call.dataset
    /\ call.compression \in DOMAIN _COMPRESSION_2_EXT

\* the directory of the dataset
Dir == Normalize(call.path)

\* the subdirectories of the partitions that the dataframe of the call has
PartitionDirs ==
    LET cols == The(call.partition_cols)
    IN  {Dir \o Subdir(cols, KeyOf(call.df[n], cols)) \o <<"/">> : n \in 1..Len(call.df)}

Deletes == SelectSeq(reqs, LAMBDA r : r.op = "delete")

\* the call has raised an exception of this type
RaisedWith(type) == pc = "raised" /\ result.type = type

\* C3: after a first write to the directory, a dataset write to the same
\* directory with mode="overwrite", none of whose requests failed, returns with
\* exactly the paths it returned as the objects under the directory, and no
\* object the first call returned is left.
C3_OverwriteLeavesOnlyNew ==
    (DatasetWrite /\ call.mode = "overwrite" /\ Len(past) = 2 /\ pc = "returned"
        /\ nfail = 0) =>
        /\ { l \in DOMAIN store : Under(l, Dir) } = Range(result)
        /\ past[1].how = "returned" =>
              \A i \in DOMAIN past[1].result :
                 Under(past[1].result[i], Dir) => past[1].result[i] \notin DOMAIN store

\* the overwrite returned its paths, after a first write that had itself
\* returned two partition files into a directory with older objects in it
C3_Witness ==
    /\ DatasetWrite /\ call.mode = "overwrite" /\ Len(past) = 2 /\ pc = "returned"
    /\ nfail = 0
    /\ past[1].how = "returned" /\ Len(past[1].result) = 2
    /\ \A i \in DOMAIN past[1].result : Under(past[1].result[i], Dir)
    /\ Len(result) = 2
    /\ \E l \in DOMAIN pre : Under(l, Dir) /\ l \notin Range(past[1].result)

\* C4 as stated: a dataset write in the upsert mode has deleted every object
\* that was under the subdirectory of a partition of the dataframe before it
\* writes that partition's file, leaves the objects of the other partition
\* subdirectories as they were, and without partition columns has deleted
\* everything under the target prefix before it writes
C4_AsStated ==
    (DatasetWrite /\ call.mode = "partitions_upsert") =>
        /\ fr.pc = "group_write" =>
              \A l \in DOMAIN pre : Under(l, fr.prefix) => l \notin DOMAIN store
        /\ (pc = "returned" /\ ~Falsy(call.partition_cols)) =>
              \A l \in DOMAIN pre :
                 IF \E d \in PartitionDirs : Under(l, d)
                 THEN l \notin DOMAIN store
                 ELSE l \in DOMAIN store /\ store[l] = pre[l]
        /\ ((fr.pc = "write" \/ pc = "returned") /\ Falsy(call.partition_cols)) =>
              \A l \in DOMAIN pre : Under(l, Dir) => l \notin DOMAIN store

\* C5: a dataset write in the append mode, named or by default, issues no
\* delete request; every object that was in the store when the call began is
\* there unchanged at every step of the call and after it
C5_AppendNeverDeletes ==
    (call.op = "to_parquet" /\ call.dataset /\ call.mode \in {None, "append"}) =>
        /\ Deletes = <<>>
        /\ \A l \in DOMAIN pre : l \in DOMAIN store /\ store[l] = pre[l]

\* a partitioned write with the mode omitted has returned two new files
\* into a directory that held objects
C5_Witness ==
    /\ pc = "returned" /\ call.op = "to_parquet" /\ call.dataset /\ call.mode = None
    /\ Len(result) = 2
    /\ \E l \in DOMAIN pre : Under(l, Dir)
    /\ \A i \in 1..2 : result[i] \in DOMAIN store /\ result[i] \notin DOMAIN pre

\* the modes that the docstring of to_parquet (line 440) names
DocumentedModes == {"append", "overwrite", "partition_upsert"}

\* C6 as stated: a dataset write raises InvalidArgumentValue exactly when its
\* mode is none of append, overwrite, partition_upsert (an omitted mode is
\* append)
C6_AsStated ==
    (DatasetWrite /\ pc \in {"returned", "raised"}) =>
        (RaisedWith("InvalidArgumentValue") <=> call.mode \notin DocumentedModes \cup {None})

-----------------------------------------------------------------------------
(* Properties of describe_objects and read_csv *)

\* the number of lookups C7 allows for a wait_time
Budget(wait_time) ==
    CASE wait_time.kind = "None"  -> 1
      [] wait_time.kind = "int"   -> IF wait_time.n > 0 THEN wait_time.n ELSE 1
      [] wait_time.kind = "float" ->
            IF wait_time.tenths >= 10 THEN wait_time.tenths \div 10 ELSE 1

\* the invocations of the call that have raised
Failed == {k \in 1..Len(tasks) : tasks[k].st = "failed"}

Describing == call.op = "describe_objects"

\* the lookups and sleeps of every invocation of _describe_object are within
\* the budget: never more than T lookups; a sleep only after a not-found
\* lookup that another lookup follows; a finished invocation has slept once
\* less than it has looked up; attributes are those of the object found by the
\* last lookup, and the empty mapping is returned after T not-found lookups
WithinBudget ==
    Describing =>
        \A k \in 1..Len(tasks) :
           LET t == tasks[k]
               T == Budget(call.wait_time)
           IN  /\ t.lookups <= T
               /\ t.st \in {"pending", "cancelled"} => t.lookups = 0 /\ t.sleeps = 0
               /\ t.st = "running" => t.sleeps = t.lookups /\ t.lookups < T
               /\ t.st \in {"done", "failed"} => t.sleeps = t.lookups - 1
               /\ t.st = "done" =>
                     IF t.res[2] = {}
                     THEN t.lookups = T
                     ELSE /\ t.res[1] \in DOMAIN store
                          /\ t.res[2] = { <<"ContentLength", Len(store[t.res[1]])>> }

\* describe_objects comes back to its caller, and then none of its
\* invocations of _describe_object is still running
DescribeTerminates ==
    /\ Describing ~> (pc \in {"returned", "raised"})
    /\ []((Describing /\ pc \in {"returned", "raised"}) => Running = {})

\* C7: _describe_object makes at most T lookups for its locator, T being
\* wait_time when it is positive (a float cut to its integer part) and 1
\* otherwise; it stops at the first lookup that succeeds and returns its
\* attributes; after T not-found lookups it returns the empty mapping without
\* raising; it sleeps only between two lookups; and it always terminates.
C7_RetryBudget == []WithinBudget /\ DescribeTerminates

\* with two lookups of its budget of 3 in hand, an invocation found at its
\* second lookup the object that was not there at the first
C7_Witness ==
    /\ Describing
    /\ Budget(call.wait_time) = 3
    /\ \E k \in 1..Len(tasks) :
          /\ tasks[k].st = "done"
          /\ tasks[k].lookups = 2 /\ tasks[k].sleeps = 1
          /\ tasks[k].res[2] # {}

\* the lookups of the call that were answered with an error other than
\* not-found: the failed requests, less a failed listing of the prefix
FatalAnswers == nfail - Cardinality({i \in 1..Len(reqs) : ~reqs[i].ok})

\* C8: a lookup of describe_objects that fails with an error other than
\* not-found ends its invocation at once, with no sleep after it and no
\* further lookup for that locator, whatever is left of the budget; and
\* describe_objects raises the error (of the first such locator in input
\* order) to its caller instead of returning a mapping.
C8_FatalErrorRaised ==
    /\ [](Describing =>
            /\ FatalAnswers = Cardinality(Failed)
            /\ \A k \in Failed : tasks[k].sleeps = tasks[k].lookups - 1
            /\ (pc \in {"returned", "raised"} /\ FatalAnswers > 0) =>
                  /\ pc = "raised"
                  /\ result = tasks[Min(Failed)].res
                  /\ result.type = "ClientError" /\ result.code \in FatalCodes)
    /\ [][Describing => \A k \in Failed : k <= Len(tasks') /\ tasks'[k] = tasks[k]]_vars

\* a threaded describe_objects has raised the error of an invocation that
\* failed at its first lookup with the budget not used up, after another
\* invocation had finished with its attributes
C8_Witness ==
    /\ Describing /\ pc = "raised" /\ call.use_threads
    /\ \E k \in Failed : tasks[k].lookups = 1 /\ Budget(call.wait_time) > 1
    /\ \E k \in 1..Len(tasks) : tasks[k].st = "done"

\* the result of an item for a store that does not change
ItemResult(fn, st, path) ==
    IF fn = "_describe_object"
    THEN <<path, IF path \in DOMAIN st
                 THEN { <<"ContentLength", Len(st[path])>> } ELSE {}>>
    ELSE pd_read_csv(st[path])

\* the list comprehension or executor.map of describe_objects or read_csv has
\* given its whole list: no item failed
Collected == call.op \in {"describe_objects", "read_csv"} /\ fr.pc = "finish"

\* C10: when no item fails, the results that describe_objects and read_csv
\* collect are, with threads as without and whatever the order in which the
\* invocations end, one per input item and in input order: entry k is the
\* result of the invocation on item k, which for a store that no other writer
\* changes is the value the store fixes for item k.
C10_InputOrder ==
    Collected =>
        /\ Len(fr.resp_list) = Len(fr.paths)
        /\ \A k \in 1..Len(fr.paths) :
              /\ tasks[k].k = k /\ tasks[k].st = "done"
              /\ fr.resp_list[k] = tasks[k].res
              /\ store = pre => fr.resp_list[k] = ItemResult(tasks[k].fn, pre, fr.paths[k])

\* a threaded call has collected three results that differ, of invocations
\* that ended in another order than the input order
C10_Witness ==
    /\ Collected /\ call.use_threads /\ store = pre
    /\ Len(fr.paths) = 3
    /\ \A j, k \in 1..3 : j # k => fr.resp_list[j] # fr.resp_list[k]
    /\ tasks[3].end < tasks[1].end

\* the call ran a batch operation with threads
Threaded ==
    /\ call.op \in {"delete_objects", "describe_objects", "read_csv"}
    /\ call.use_threads

\* the per-item operation raised for an item of the call: an invocation
\* failed, or a bulk-delete request did
ItemFailed ==
    \/ Failed # {}
    \/ \E i \in 1..Len(reqs) : reqs[i].op = "delete" /\ ~reqs[i].ok

\* C9 as stated: a batch operation run with threads, for an item of which the
\* per-item operation raised, does not return normally
C9_AsStated == (Threaded /\ ItemFailed) => pc # "returned"

\* describe_objects and read_csv, whose results are read from the iterator of
\* executor.map, raise the error of the first failed item in input order
ReadResultsPropagate ==
    (call.op \in {"describe_objects", "read_csv"} /\ pc \in {"returned", "raised"}
        /\ Failed # {}) =>
        pc = "raised" /\ result = tasks[Min(Failed)].res

-----------------------------------------------------------------------------
(* Properties of to_parquet: validation, cleanup and output *)

\* the exception with which to_parquet rejects the arguments of the call, or
\* None for arguments that pass: an unrecognized compression, partition
\* columns or a mode with dataset=False, an unrecognized mode with dataset=True
Rejection ==
    IF call.compression \notin {None, "gzip", "snappy"} THEN "InvalidCompression"
    ELSE IF ~call.dataset /\ (~Falsy(call.partition_cols) \/ call.mode # None)
    THEN "InvalidArgumentCombination"
    ELSE IF call.dataset /\ call.mode \notin {None, "append", "overwrite", "partitions_upsert"}
    THEN "InvalidArgumentValue"
    ELSE None

\* C11: a call of to_parquet whose arguments are rejected issues no list,
\* delete or write request, leaves the store as it was before the call, and
\* ends by raising InvalidCompression, InvalidArgumentCombination or
\* InvalidArgumentValue as the case may be; and a call that raises one of the
\* three has issued no request.
C11_ValidationBeforeRequests ==
    call.op = "to_parquet" =>
        /\ Rejection # None =>
              /\ reqs = <<>> /\ store = pre /\ nfail = 0
              /\ pc # "returned"
              /\ pc = "raised" => result.type = Rejection
        /\ (pc = "raised" /\ result.type \in {"InvalidCompression", "InvalidArgumentCombination",
                                             "InvalidArgumentValue"}) =>
              reqs = <<>> /\ store = pre /\ result.type = Rejection

\* a dataset write with an unrecognized mode, into a directory that holds
\* objects, has raised InvalidArgumentValue
C11_Witness ==
    /\ call.op = "to_parquet" /\ call.dataset /\ call.mode = "partition_upsert"
    /\ RaisedWith("InvalidArgumentValue")
    /\ \E l \in DOMAIN pre : Under(l, Dir)

\* the call is a dataset write in a mode that first cleans the whole target
\* prefix, and a bulk-delete request of that cleanup has failed
CleanupFailed ==
    /\ DatasetWrite
    /\ \/ call.mode = "overwrite"
       \/ call.mode = "partitions_upsert" /\ Falsy(call.partition_cols)
    /\ \E i \in 1..Len(reqs) : reqs[i].op = "delete" /\ ~reqs[i].ok

\* C12 as stated: a dataset write whose cleanup of the target prefix had a
\* bulk-delete request fail still writes its files and returns their paths,
\* without threads as with them
C12_AsStated ==
    (CleanupFailed /\ pc \in {"returned", "raised"} /\ nfail = 1) =>
        /\ pc = "returned"
        /\ \A i \in 1..Len(result) : result[i] \in DOMAIN store

\* C12 (amended): after a bulk-delete request of the cleanup has failed (and
\* no other request has), a dataset write without threads raises that error
\* and writes nothing, and a dataset write with threads, where delete_objects
\* drops the error, writes its files and returns their paths
C12_CleanupFailureByMode ==
    (CleanupFailed /\ pc \in {"returned", "raised"} /\ nfail = 1) =>
        IF call.use_threads
        THEN /\ pc = "returned"
             /\ \A i \in 1..Len(result) : result[i] \in DOMAIN store
        ELSE /\ pc = "raised" /\ result.type = "ClientError"
             /\ \A i \in 1..Len(reqs) : reqs[i].op # "put"
             /\ DOMAIN store \subseteq DOMAIN pre

\* a write without threads has raised the error of the second bulk-delete
\* request of its cleanup, the first having deleted part of the prefix
C12_Witness ==
    /\ CleanupFailed /\ ~call.use_threads /\ pc = "raised" /\ nfail = 1
    /\ \E i \in 1..Len(reqs) : reqs[i].op = "delete" /\ reqs[i].ok
    /\ \E l \in DOMAIN pre : Under(l, Dir) /\ l \in DOMAIN store

-----------------------------------------------------------------------------
(* Properties of the worker pools *)

\* the invocations of the call that a worker runs or that wait in the queue
Unfinished == {k \in 1..Len(tasks) : tasks[k].st \in {"pending", "running"}}

\* C13: when delete_objects, describe_objects or read_csv, run with threads,
\* has returned or raised, none of the invocations that it submitted is
\* running or queued; no invocation is dropped before it has finished; and
\* once the call is back no request is issued and the store does not change.
C13_PoolTornDown ==
    /\ []((Threaded /\ pc \in {"returned", "raised"}) => Unfinished = {})
    /\ [][(Threaded /\ Unfinished # {}) =>
             /\ Len(tasks') = Len(tasks)
             /\ \A k \in 1..Len(tasks) : tasks'[k].fn = tasks[k].fn /\ tasks'[k].k = tasks[k].k]_vars
    /\ [][(Threaded /\ pc \in {"returned", "raised"}) => store' = store /\ reqs' = reqs]_vars

\* a threaded call has raised the error of its first item after cancelling a
\* queued invocation and waiting for one that was still running
C13_Witness ==
    /\ Threaded /\ pc = "raised"
    /\ \E k \in 1..Len(tasks) : tasks[k].st = "cancelled"
    /\ \E j, k \in 1..Len(tasks) :
          /\ tasks[j].st = "failed" /\ tasks[k].st = "done"
          /\ j < k /\ tasks[j].end < tasks[k].end

-----------------------------------------------------------------------------
(* Properties of to_parquet: the paths returned *)

\* the distinct value-tuples of the dataframe of the call, in processing order
Tuples == SortTuples({KeyOf(call.df[n], The(call.partition_cols)) : n \in 1..Len(call.df)})

\* the subdirectory of the g-th tuple
TupleDir(g) == Dir \o Subdir(The(call.partition_cols), Tuples[g]) \o <<"/">>

\* the returned list has one path per value-tuple in processing order, each
\* in the subdirectory of its tuple, or one path in the directory when there
\* are no partition columns
OnePathPerTuple ==
    IF Falsy(call.partition_cols)
    THEN Len(result) = 1 /\ StartsWith(result[1], Dir)
    ELSE /\ Len(result) = Len(Tuples)
         /\ \A g \in 1..Len(result) : StartsWith(result[g], TupleDir(g))
         /\ \A g, h \in 1..Len(result) : g # h => result[g] # result[h]

\* C14 as stated: when a dataset write returns normally, in every mode, the
\* returned list has one path per distinct partition value-tuple (one path
\* without partition columns) in processing order, and every returned path
\* names an object that is in the store
C14_AsStated ==
    (DatasetWrite /\ pc = "returned") =>
        /\ OnePathPerTuple
        /\ \A i \in 1..Len(result) : result[i] \in DOMAIN store

\* the subdirectories of two different value-tuples of the call are the same,
\* or one lies inside the other
SubdirsOverlap ==
    /\ ~Falsy(call.partition_cols)
    /\ \E g, h \in 1..Len(Tuples) : g # h /\ StartsWith(TupleDir(g), TupleDir(h))

\* when a dataset write returns, the list is as C14 says, and every returned
\* path is in the store unless subdirectories of the call overlap
OutputKeptUnlessOverlap ==
    (DatasetWrite /\ pc = "returned") =>
        /\ OnePathPerTuple
        /\ ~SubdirsOverlap => \A i \in 1..Len(result) : result[i] \in DOMAIN store

=============================================================================
